---- MODULE Spec2Model ----
(***************************************************************************)
(* FinForge: financial-transaction fraud-ring detection engine.            *)
(*                                                                         *)
(* The detection back end (GraphEngine) is documented in the repository's  *)
(* README (src/unnamed/part_001); its Python source is not among the       *)
(* repository files at hand, so the detection pipeline is modelled from    *)
(* the README where the README states the rule and from the design         *)
(* specification elsewhere.                                                *)
(*                                                                         *)
(* Scores are real numbers in the engine.  They are modelled in fixed      *)
(* point: a score x is the integer x * Scale, divisions round down.        *)
(***************************************************************************)
EXTENDS Integers, Sequences, FiniteSets, TLC

VARIABLES
    \* ---- suspicion score accumulator of one account (ScoreSpec) ----
    score,      \* current score of the account, fixed point
    phase,      \* which kind of contribution is applied next
    applied,    \* contributions applied so far
    inPhase,    \* contributions applied in the current phase
    weakOnly,   \* TRUE while every contribution applied was below 75
    \* ---- the pipeline: transactions -> report ----
    txs,        \* the input rows, in their given order
    pc,         \* the stage the pipeline is at
    idx,        \* rows consumed by the Graph Builder
    skipped,    \* rows rejected as InvalidInput
    adj,        \* account -> set of outgoing partners
    rev,        \* account -> set of incoming partners
    edges_by_source,    \* account -> sequence of outgoing transfers
    edges_by_target,    \* account -> sequence of incoming transfers
    node_stats, \* account -> tx_in, tx_out, total_in, total_out, timestamps
    sorted_accounts,    \* the accounts in ascending order of their id
    legitimate, \* accounts the Legitimacy Filter excludes
    cycles,     \* accepted cycles, each the path from its DFS start
    smurfs,     \* smurfing hits
    shells,     \* accepted shell chains
    bfs_steps,  \* shell BFS frontier expansions so far
    scores,     \* account -> suspicion score (fixed point), flagged accounts
    patterns,   \* account -> detected pattern tags, in order of detection
    candidates, \* candidate rings, in construction order
    fraud_rings,            \* the report's rings
    suspicious_accounts,    \* the report's accounts
    graph_nodes,            \* the payload's nodes
    graph_edges,            \* the payload's edges
    \* ---- the sliding window over one account's instants ----
    stamps,     \* the account's instants (ts), ascending
    right,      \* instants consumed by the window loop (i)
    left,       \* left pointer of the window (j)
    max_window, \* largest i - j + 1 seen so far
    \* ---- the App component and its upload zone ----
    result,     \* 0 (null) or the request whose response is displayed
    loading,    \* the loading flag
    progress,   \* progress.pct
    error,      \* 0 (null) or the request whose failure is displayed
    started,    \* requests started so far; the newest request's number
    inflight,   \* requests posted and not yet answered
    timers      \* pending setTimeout callbacks

scoreVars == <<score, phase, applied, inPhase, weakOnly>>

graphVars == <<adj, rev, edges_by_source, edges_by_target, node_stats,
               sorted_accounts>>

vars == <<score, phase, applied, inPhase, weakOnly,
          txs, pc, idx, skipped,
          adj, rev, edges_by_source, edges_by_target, node_stats,
          sorted_accounts, legitimate,
          cycles, smurfs, shells, bfs_steps,
          scores, patterns, candidates, fraud_rings, suspicious_accounts,
          graph_nodes, graph_edges,
          stamps, right, left, max_window,
          result, loading, progress, error, started, inflight, timers>>

windowVars == <<stamps, right, left, max_window>>

appVars == <<result, loading, progress, error, started, inflight, timers>>

\* no window is being computed
WindowIdle ==
    /\ stamps = <<>>
    /\ right = 0
    /\ left = 1
    /\ max_window = 0

\* App as first rendered (useState initial values), nothing requested
AppIdle ==
    /\ result = 0
    /\ loading = FALSE
    /\ progress = 0
    /\ error = 0
    /\ started = 0
    /\ inflight = {}
    /\ timers = {}

\* ------------------------------------------------------------------------
\* Resolution and bounds of the model
\* ------------------------------------------------------------------------
Scale == 100            \* fixed-point resolution: 1 score point = Scale
MaxContribs == 7        \* contributions applied to one account
MaxPartners == 12       \* partners P of a hub in the score table
MaxWindow == 6          \* window count W in the score table
MaxChainCount == 2      \* shell chains C through one node

\* ------------------------------------------------------------------------
\* Program constants (README: Score Contributions by Pattern)
\* ------------------------------------------------------------------------
ScoreDenominator == 120
ScoreCap == 100
CycleBase3 == 85
CycleBase4 == 80
CycleBase5 == 75
TemporalBonus72h == 8
TemporalBonusWeek == 4
AmountDecayBonus == 6
HubBase == 40
FanThreshold == 10
HubPartnerWeight == 3
HubWindowWeight == 2
VelocityThreshold == 6
ShellBase == 55
ShellCountWeight == 10
ShellHopWeight == 2
MinShellHops == 3
MaxShellHops == 6

Min(a, b) == IF a <= b THEN a ELSE b
Max(a, b) == IF a >= b THEN a ELSE b

\* ------------------------------------------------------------------------
\* Diminishing-returns accumulation
\* ------------------------------------------------------------------------
Clamp(x) == Max(0, Min(ScoreCap * Scale, x))

\* new_score = current + contribution * (1 - current / 120), without the clamp
Accumulate(s, c) ==
    s + (c * (ScoreDenominator * Scale - s)) \div (ScoreDenominator * Scale)

ApplyContributionUnclamped(s, c) == Accumulate(s, c)

\* one contribution c applied to the current score s, clamped to [0, 100]
ApplyContribution(s, c) == Clamp(Accumulate(s, c))

\* ------------------------------------------------------------------------
\* Contribution table (fixed point)
\* ------------------------------------------------------------------------
CycleBase(len) ==
    CASE len = 3 -> CycleBase3
      [] len = 4 -> CycleBase4
      [] OTHER   -> CycleBase5

\* cycle member: base by length, +8 within 72h, else +4 within a week, +6 decay
CycleContribution(len, in72h, inWeek, decay) ==
    Scale * ( CycleBase(len)
            + (IF in72h THEN TemporalBonus72h
               ELSE IF inWeek THEN TemporalBonusWeek ELSE 0)
            + (IF decay THEN AmountDecayBonus ELSE 0) )

\* hub with P partners and window count W: min(100, 40 + (P - 10)*3 + W*2)
HubContribution(P, W) ==
    Scale * Min(ScoreCap,
                HubBase + (P - FanThreshold) * HubPartnerWeight
                        + W * HubWindowWeight)

\* high velocity: W * 1.5 when W >= 6
VelocityContribution(W) ==
    IF W >= VelocityThreshold THEN (3 * W * Scale) \div 2 ELSE 0

\* fan-in contributor / fan-out receiver: 0.3 * hub_score
PeripheralContribution(hubScore) == (3 * hubScore) \div 10

\* shell chain member: 0.5 * (55 + 10*C + 2*H)
ShellContribution(C, H) ==
    (Scale * (ShellBase + ShellCountWeight * C + ShellHopWeight * H)) \div 2

\* ------------------------------------------------------------------------
\* ScoreSpec: the scoring table of one account.  Contributions are applied
\* in the consolidator's order: cycle, fan/velocity, shell, peripheral.
\* ------------------------------------------------------------------------
Phases == <<"cycle", "fan_hub", "velocity", "fan_hub2", "shell", "peripheral", "emitted">>

PhaseIndex(p) == CHOOSE i \in 1..Len(Phases) : Phases[i] = p

CycleContributions ==
    { CycleContribution(len, t = 2, t = 1, d) :
        len \in 3..5, t \in 0..2, d \in BOOLEAN }

HubContributions ==
    { HubContribution(P, W) : P \in FanThreshold..MaxPartners, W \in 1..MaxWindow }

VelocityContributions ==
    { VelocityContribution(W) : W \in VelocityThreshold..MaxWindow }

ShellContributions ==
    { ShellContribution(C, H) : C \in 1..MaxChainCount, H \in MinShellHops..MaxShellHops }

PeripheralContributions == { PeripheralContribution(h) : h \in HubContributions }

ContributionsOf(p) ==
    CASE p = "cycle"      -> CycleContributions
      [] p = "fan_hub"    -> HubContributions
      [] p = "velocity"   -> VelocityContributions
      [] p = "fan_hub2"   -> HubContributions
      [] p = "shell"      -> ShellContributions
      [] p = "peripheral" -> PeripheralContributions
      [] OTHER            -> {}

\* an account is in any number of cycles and chains and a partner of any
\* number of hubs, but a hub at most twice (fan-in, fan-out) and tagged
\* high_velocity at most once
PhaseLimit(p) ==
    IF p \in {"fan_hub", "velocity", "fan_hub2"} THEN 1 ELSE MaxContribs

IsWeak(c) == c < CycleBase5 * Scale

\* the pipeline's variables before any row is read
PipelineIdle ==
    /\ txs = <<>>
    /\ pc = "idle"
    /\ idx = 0
    /\ skipped = 0
    /\ adj = <<>>
    /\ rev = <<>>
    /\ edges_by_source = <<>>
    /\ edges_by_target = <<>>
    /\ node_stats = <<>>
    /\ sorted_accounts = <<>>
    /\ legitimate = {}
    /\ cycles = <<>>
    /\ smurfs = <<>>
    /\ shells = <<>>
    /\ bfs_steps = 0
    /\ scores = <<>>
    /\ patterns = <<>>
    /\ candidates = <<>>
    /\ fraud_rings = <<>>
    /\ suspicious_accounts = <<>>
    /\ graph_nodes = <<>>
    /\ graph_edges = {}

detectVars == <<cycles, smurfs, shells, bfs_steps>>

reportVars == <<scores, patterns, candidates, fraud_rings,
                suspicious_accounts, graph_nodes, graph_edges>>

pipelineVars == <<txs, pc, idx, skipped, graphVars, legitimate, detectVars,
                  reportVars>>

ScoreIdle ==
    /\ score = 0
    /\ phase = "cycle"
    /\ applied = 0
    /\ inPhase = 0
    /\ weakOnly = TRUE

ScoreInit == ScoreIdle /\ PipelineIdle /\ WindowIdle /\ AppIdle

\* one contribution of the current phase is applied to the account
Contribute ==
    /\ phase # "emitted"
    /\ applied < MaxContribs
    /\ inPhase < PhaseLimit(phase)
    /\ \E c \in ContributionsOf(phase) :
         /\ score' = ApplyContribution(score, c)
         /\ weakOnly' = (weakOnly /\ IsWeak(c))
    /\ applied' = applied + 1
    /\ inPhase' = inPhase + 1
    /\ UNCHANGED <<phase, pipelineVars, windowVars, appVars>>

\* the consolidator moves on to the next kind of contribution
NextPhase ==
    /\ phase # "emitted"
    /\ phase' = Phases[PhaseIndex(phase) + 1]
    /\ inPhase' = 0
    /\ UNCHANGED <<score, applied, weakOnly, pipelineVars, windowVars, appVars>>

ScoreNext == Contribute \/ NextPhase

ScoreSpec == ScoreInit /\ [][ScoreNext]_vars

\* ========================================================================
\* The detection pipeline
\* ========================================================================
\* Accounts are numbered; the order of the numbers stands for the
\* lexicographic order of the account ids.  Amounts are whole currency
\* units and timestamps are minutes.

Range(f) == { f[i] : i \in DOMAIN f }

\* the stages of analyze(), in the order the pipeline runs them
Stages == <<"build", "filter", "cycles", "smurfing", "shells", "score",
            "dedup", "payload", "done">>

StageStay(p) == p

\* the stage entered when the stage p returns
StageAfter(p) == Stages[(CHOOSE i \in 1..Len(Stages) : Stages[i] = p) + 1]

Tx(s, r, amt, ts) == [s |-> s, r |-> r, amt |-> amt, ts |-> ts]

SetMax(S) == CHOOSE x \in S : \A y \in S : y <= x

SetMin(S) == CHOOSE x \in S : \A y \in S : x <= y

\* the elements of a finite set of account numbers, ascending
SortedSeq(S) ==
    IF S = {} THEN <<>>
    ELSE SelectSeq([i \in 1..SetMax(S) |-> i], LAMBDA i : i \in S)

\* ------------------------------------------------------------------------
\* Loops.  A loop's running values are bound once per round, so that a
\* round reads them as values however often it refers to them.
\* ------------------------------------------------------------------------
\* the value a singleton set holds
TheOne(S) == CHOOSE r \in S : TRUE

\* for x in q: if Break(acc): break; acc = Step(acc, x)
\* F[lo, hi, acc] is acc after the rounds for q[lo], ..., q[hi]
ForEach(Step(_, _), Break(_), q0, acc0) ==
    TheOne({ LET F[lo \in 1..(Len(q) + 1), hi \in 0..Len(q), acc \in Any] ==
                   IF Break(acc) \/ lo > hi THEN acc
                   ELSE IF lo = hi THEN Step(acc, q[lo])
                   ELSE F[((lo + hi) \div 2) + 1, hi,
                          F[lo, (lo + hi) \div 2, acc]]
             IN F[1, Len(q), acc0] : q \in {q0} })

LoopRounds == 17

\* while not Done(st): st = Step(st)
\* R[k, st] is st after at most 2^k rounds; no loop of the runs modelled
\* here takes 2^LoopRounds rounds
While(Step(_), Done(_), st0) ==
    LET R[k \in 0..LoopRounds, st \in Any] ==
            IF Done(st) THEN st
            ELSE IF k = 0 THEN Step(st)
            ELSE R[k - 1, R[k - 1, st]]
    IN R[LoopRounds, st0]

\* [F(x) for x in q]
MapSeq(F(_), q0) ==
    TheOne({ [k \in 1..Len(q) |-> F(q[k])] : q \in {q0} })

\* [q[i] for i in order]
Reorder(q0, order0) ==
    TheOne({ [k \in 1..Len(order) |-> q[order[k]]] :
             q \in {q0}, order \in {order0} })

\* a loop that is never left early
NoBreak(acc) == FALSE

\* the concatenation of the sequences of qq, in order
Flatten(qq) == ForEach(LAMBDA acc, q : acc \o q, NoBreak, qq, <<>>)

\* ------------------------------------------------------------------------
\* Graph Builder (README: GraphEngine.build_graph)
\* ------------------------------------------------------------------------
\* a row is rejected when it is a self-transfer or its amount is not positive
ValidRow(t) == t.s # t.r /\ t.amt > 0

EmptyStats == [tx_in |-> 0, tx_out |-> 0, total_in |-> 0, total_out |-> 0,
               timestamps |-> <<>>]

EmptyGraph == [adj |-> <<>>, rev |-> <<>>, edges_by_source |-> <<>>,
               edges_by_target |-> <<>>, node_stats |-> <<>>]

\* f extended to the accounts a and b, new accounts mapped to d
WithNodes(f, a, b, d) == f @@ (a :> d) @@ (b :> d)

AddOut(st, t) ==
    [st EXCEPT !.tx_out = @ + 1, !.total_out = @ + t.amt,
               !.timestamps = Append(@, t.ts)]

\* the incoming transfer counted without its instant
AddInUnstamped(st, t) ==
    [st EXCEPT !.tx_in = @ + 1, !.total_in = @ + t.amt]

AddIn(st, t) ==
    [st EXCEPT !.tx_in = @ + 1, !.total_in = @ + t.amt,
               !.timestamps = Append(@, t.ts)]

Edge(partner, t) == [partner |-> partner, amount |-> t.amt, timestamp |-> t.ts]

\* the graph g after the valid row t
IngestRow(g, t) ==
    [adj |-> [WithNodes(g.adj, t.s, t.r, {}) EXCEPT ![t.s] = @ \cup {t.r}],
     rev |-> [WithNodes(g.rev, t.s, t.r, {}) EXCEPT ![t.r] = @ \cup {t.s}],
     edges_by_source |->
        [WithNodes(g.edges_by_source, t.s, t.r, <<>>) EXCEPT
            ![t.s] = Append(@, Edge(t.r, t))],
     edges_by_target |->
        [WithNodes(g.edges_by_target, t.s, t.r, <<>>) EXCEPT
            ![t.r] = Append(@, Edge(t.s, t))],
     node_stats |->
        [WithNodes(g.node_stats, t.s, t.r, EmptyStats) EXCEPT
            ![t.s] = AddOut(@, t), ![t.r] = AddIn(@, t)]]

Graph == [adj |-> adj, rev |-> rev, edges_by_source |-> edges_by_source,
          edges_by_target |-> edges_by_target, node_stats |-> node_stats]

\* the Graph Builder consumes the next row
Ingest ==
    /\ pc = "build"
    /\ idx < Len(txs)
    /\ LET t == txs[idx + 1]
           g == IngestRow(Graph, t)
       IN IF ValidRow(t)
          THEN /\ adj' = g.adj
               /\ rev' = g.rev
               /\ edges_by_source' = g.edges_by_source
               /\ edges_by_target' = g.edges_by_target
               /\ node_stats' = g.node_stats
               /\ UNCHANGED skipped
          ELSE /\ skipped' = skipped + 1
               /\ UNCHANGED <<adj, rev, edges_by_source, edges_by_target,
                              node_stats>>
    /\ idx' = idx + 1
    /\ UNCHANGED <<txs, pc, sorted_accounts, legitimate, detectVars,
                   reportVars, scoreVars, windowVars, appVars>>

\* the graph of a whole input: the rows in order, rejected rows skipped
build_graph(rows) ==
    ForEach(LAMBDA g, t : IF ValidRow(t) THEN IngestRow(g, t) ELSE g,
            NoBreak, rows, EmptyGraph)

Accounts == DOMAIN node_stats

\* every row is consumed: the graph is complete, the accounts are sorted
BuildDone ==
    /\ pc = "build"
    /\ idx = Len(txs)
    /\ sorted_accounts' = SortedSeq(Accounts)
    /\ pc' = StageAfter(pc)
    /\ UNCHANGED <<txs, idx, skipped, adj, rev, edges_by_source,
                   edges_by_target, node_stats, legitimate, detectVars,
                   reportVars, scoreVars, windowVars, appVars>>

\* ------------------------------------------------------------------------
\* Legitimacy Filter (README: False Positive Suppression)
\* ------------------------------------------------------------------------
MerchantMinIn == 12
MerchantMaxOut == 5
PayrollMinOut == 15
PayrollMaxIn == 3
ConduitTolerancePct == 15

\* the merchant rule with a strict bound on in_degree
MerchantStrict(st) ==
    /\ st.tx_in > MerchantMinIn
    /\ st.tx_out <= MerchantMaxOut
    /\ st.total_in > 2 * st.total_out

\* in_degree >= 12 AND out_degree <= 5 AND total_in > 2 * total_out
IsMerchant(st) ==
    /\ st.tx_in >= MerchantMinIn
    /\ st.tx_out <= MerchantMaxOut
    /\ st.total_in > 2 * st.total_out

\* out_degree >= 15 AND in_degree <= 3
IsPayrollDisburser(st) ==
    /\ st.tx_out >= PayrollMinOut
    /\ st.tx_in <= PayrollMaxIn

\* tx_in <= 3 AND tx_out >= 15 AND |total_in - total_out| / total_in < 15%
IsPayrollConduit(st) ==
    /\ st.tx_in <= PayrollMaxIn
    /\ st.tx_out >= PayrollMinOut
    /\ LET d == IF st.total_in >= st.total_out
                THEN st.total_in - st.total_out
                ELSE st.total_out - st.total_in
       IN IF st.total_in = 0 THEN d = 0
          ELSE 100 * d < ConduitTolerancePct * st.total_in

IsLegitimate(st) ==
    IsMerchant(st) \/ IsPayrollDisburser(st) \/ IsPayrollConduit(st)

get_legitimate_accounts(stats) ==
    { a \in DOMAIN stats : IsLegitimate(stats[a]) }

Filter ==
    /\ pc = "filter"
    /\ legitimate' = get_legitimate_accounts(node_stats)
    /\ pc' = StageAfter(pc)
    /\ UNCHANGED <<txs, idx, skipped, graphVars, detectVars, reportVars,
                   scoreVars, windowVars, appVars>>

\* ------------------------------------------------------------------------
\* Cycle Detector (README: Cycle Detection - Circular Fund Routing)
\* ------------------------------------------------------------------------
MaxCycles == 500
MinCycleLen == 3
MaxCycleLen == 5

\* canonical ordering: only neighbours n > s are traversed
\* the traversal without the canonical ordering: any neighbour but the start
AnyNeighbour(n, s) == n # s

CanonicalNeighbour(n, s) == n > s

\* a back-edge to the start closes a cycle when the path has 3 to 5 members
ClosesCycle(path) == Len(path) >= MinCycleLen /\ Len(path) <= MaxCycleLen

\* a detector that never looks at the cap
CapNever(acc) == FALSE

\* the cap: no cycle is accepted once 500 are
CapReached(acc) == Len(acc) >= MaxCycles

\* The DFS keeps a stack of frames, each a path (path[1] is the start s)
\* with the neighbours of its last account that are still to be looked
\* at, in ascending order.
Frame(g, path) == [path |-> path, nbrs |-> SortedSeq(g[path[Len(path)]])]

\* the start `next` of the sorted list is taken up; legitimate accounts
\* are no start
StartDfs(g, legit, order, st) ==
    [st EXCEPT !.next = @ + 1,
               !.stack = IF order[st.next] \in legit THEN <<>>
                         ELSE <<Frame(g, <<order[st.next]>>)>>]

\* the top frame looks at its next neighbour n: a back-edge to s records
\* the path when it has 3 to 5 members; another neighbour is entered when
\* it is canonical, not on the path, not legitimate, and the path is not
\* at its depth bound
VisitNeighbour(g, legit, st) ==
    LET top  == Head(st.stack)
        path == top.path
        n    == Head(top.nbrs)
        rest == <<[top EXCEPT !.nbrs = Tail(@)]>> \o Tail(st.stack)
    IN IF n = path[1]
       THEN [st EXCEPT !.stack = rest,
                       !.cycles = IF ClosesCycle(path) THEN Append(@, path)
                                  ELSE @]
       ELSE IF /\ CanonicalNeighbour(n, path[1])
               /\ n \notin Range(path)
               /\ n \notin legit
               /\ Len(path) < MaxCycleLen
            THEN [st EXCEPT !.stack = <<Frame(g, Append(path, n))>> \o rest]
            ELSE [st EXCEPT !.stack = rest]

DfsStep(g, legit, order, st) ==
    IF st.stack = <<>> THEN StartDfs(g, legit, order, st)
    ELSE IF Head(st.stack).nbrs = <<>>
         THEN [st EXCEPT !.stack = Tail(@)]
         ELSE VisitNeighbour(g, legit, st)

DfsDone(order, st) ==
    \/ CapReached(st.cycles)
    \/ st.stack = <<>> /\ st.next > Len(order)

\* for each account s of the sorted list, the DFS from s, until the cap
detect_cycles(g, legit, order) ==
    While(LAMBDA st : DfsStep(g, legit, order, st),
          LAMBDA st : DfsDone(order, st),
          [next |-> 1, stack |-> <<>>, cycles |-> <<>>]).cycles

DetectCycles ==
    /\ pc = "cycles"
    /\ cycles' = detect_cycles(adj, legitimate, sorted_accounts)
    /\ pc' = StageAfter(pc)
    /\ UNCHANGED <<txs, idx, skipped, graphVars, legitimate,
                   smurfs, shells, bfs_steps, reportVars, scoreVars,
                   windowVars, appVars>>

\* ------------------------------------------------------------------------
\* Smurfing Detector (README: Smurfing Detection - Fan-in / Fan-out)
\* ------------------------------------------------------------------------
Window72h == 4320       \* minutes
Window24h == 1440
WindowWeek == 10080

\* a sequence of instants, ascending (duplicates kept)
SortInstants(q) == SortSeq(q, LAMBDA x, y : x < y)

\* the left pointer also passes an instant exactly w before ts[i]
AdvanceLeftStrict(ts, w, i, j) == SetMin({ k \in j..i : ts[i] - ts[k] < w })

\* advance j while ts[i] - ts[j] > w
AdvanceLeft(ts, w, i, j) == SetMin({ k \in j..i : ts[i] - ts[k] <= w })

\* two-pointer sliding window: max over i of i - j + 1
SlideWindow(ts, w) ==
    ForEach(LAMBDA st, i :
                TheOne({ [j |-> j1, best |-> Max(st.best, i - j1 + 1)] :
                         j1 \in {AdvanceLeft(ts, w, i, st.j)} }),
            NoBreak, [i \in 1..Len(ts) |-> i], [j |-> 1, best |-> 0])

\* the largest number of transactions inside a window of w minutes
max_window_count(timestamps, w) ==
    TheOne({ SlideWindow(ts, w).best : ts \in {SortInstants(timestamps)} })

\* the hits of one account: fan-in when >= 10 unique senders, fan-out when
\* >= 10 unique receivers
SmurfHitsOf(g, a) ==
    LET W  == max_window_count(g.node_stats[a].timestamps, Window72h)
        W1 == max_window_count(g.node_stats[a].timestamps, Window24h)
        hit(role, partners) ==
            [hub |-> a, role |-> role, partners |-> partners,
             max_window_count |-> W, window24 |-> W1]
    IN  (IF Cardinality(g.rev[a]) >= FanThreshold
         THEN <<hit("fan_in", g.rev[a])>> ELSE <<>>)
     \o (IF Cardinality(g.adj[a]) >= FanThreshold
         THEN <<hit("fan_out", g.adj[a])>> ELSE <<>>)

\* single pass over the non-legitimate accounts, ascending
detect_smurfing(g, legit, order) ==
    Flatten([i \in 1..Len(order) |->
                IF order[i] \in legit THEN <<>> ELSE SmurfHitsOf(g, order[i])])

DetectSmurfing ==
    /\ pc = "smurfing"
    /\ smurfs' = detect_smurfing(Graph, legitimate, sorted_accounts)
    /\ pc' = StageAfter(pc)
    /\ UNCHANGED <<txs, idx, skipped, graphVars, legitimate,
                   cycles, shells, bfs_steps, reportVars, scoreVars,
                   windowVars, appVars>>

\* ------------------------------------------------------------------------
\* Shell Detector (README: Shell Network Detection - Layered Chains)
\* ------------------------------------------------------------------------
ShellMaxTx == 3
MaxBfsSteps == 50000

\* a low-activity account: at most 3 transactions in total
IsShell(st) == st.tx_in + st.tx_out <= ShellMaxTx

\* the step budget is used up
BudgetExhausted(steps) == steps >= MaxBfsSteps

\* One BFS step: the path at the head of the queue is accepted when it
\* has 3 hops or more, and is extended past its last account only when
\* that account is the start or a shell, so that every path in the queue
\* has shell accounts only in its interior.
BfsStep(g, stats, st) ==
    LET path == Head(st.queue)
        last == path[Len(path)]
        hops == Len(path) - 1
        nbrs == SortedSeq(g[last] \ Range(path))
        ext  == IF hops < MaxShellHops /\ (hops = 0 \/ IsShell(stats[last]))
                THEN [i \in 1..Len(nbrs) |-> Append(path, nbrs[i])]
                ELSE <<>>
    IN [st EXCEPT !.queue  = Tail(@) \o ext,
                  !.steps  = @ + 1,
                  !.chains = IF hops >= MinShellHops THEN Append(@, path)
                             ELSE @]

\* the BFS from the start `next` of the sorted list begins; legitimate
\* accounts are no start
StartBfs(legit, order, st) ==
    [st EXCEPT !.next = @ + 1,
               !.queue = IF order[st.next] \in legit THEN <<>>
                         ELSE << <<order[st.next]>> >>]

ShellStep(g, stats, legit, order, st) ==
    IF st.queue = <<>> THEN StartBfs(legit, order, st)
    ELSE BfsStep(g, stats, st)

ShellDone(order, st) ==
    \/ BudgetExhausted(st.steps)
    \/ st.queue = <<>> /\ st.next > Len(order)

\* for each non-legitimate account s of the sorted list, the BFS from s,
\* until the step budget is used up
detect_shell_networks(g, stats, legit, order) ==
    While(LAMBDA st : ShellStep(g, stats, legit, order, st),
          LAMBDA st : ShellDone(order, st),
          [next |-> 1, queue |-> <<>>, steps |-> 0, chains |-> <<>>])

DetectShells ==
    /\ pc = "shells"
    /\ \E r \in {detect_shell_networks(adj, node_stats, legitimate,
                                        sorted_accounts)} :
          /\ shells' = r.chains
          /\ bfs_steps' = r.steps
    /\ pc' = StageAfter(pc)
    /\ UNCHANGED <<txs, idx, skipped, graphVars, legitimate,
                   cycles, smurfs, reportVars, scoreVars, windowVars, appVars>>

\* ------------------------------------------------------------------------
\* Ring Consolidator & Scorer: per-account scores
\* (README: Suspicion Score Methodology; _build_rings_and_scores)
\* ------------------------------------------------------------------------
SeqMin(q) == SetMin(Range(q))
SeqMax(q) == SetMax(Range(q))

\* the transfers of the hop u -> v
HopTransfers(g, u, v) ==
    SelectSeq(g.edges_by_source[u], LAMBDA e : e.partner = v)

\* hop i of a cycle goes from member i to the next member, the last hop
\* back to the first
HopTarget(members, i) == members[(i % Len(members)) + 1]

\* per hop: the earliest transfer's instant
CycleTimestamps(g, members) ==
    [i \in 1..Len(members) |->
        SetMin({ e.timestamp :
                 e \in Range(HopTransfers(g, members[i], HopTarget(members, i))) })]

\* per hop: the largest transfer's amount
CycleAmounts(g, members) ==
    [i \in 1..Len(members) |->
        SetMax({ e.amount :
                 e \in Range(HopTransfers(g, members[i], HopTarget(members, i))) })]

AllWithin(ts, w) == SeqMax(ts) - SeqMin(ts) <= w

\* ratio = amounts[i] / amounts[i-1]; decay when 0.65 <= ratio <= 0.98 for all i
AmountDecay(amounts) ==
    \A i \in 2..Len(amounts) :
        /\ 65 * amounts[i - 1] <= 100 * amounts[i]
        /\ 100 * amounts[i] <= 98 * amounts[i - 1]

Event(a, c, tags) == [account |-> a, c |-> c, tags |-> tags]

CycleLengthTag(len) ==
    CASE len = 3 -> "cycle_length_3"
      [] len = 4 -> "cycle_length_4"
      [] OTHER   -> "cycle_length_5"

\* the contributions of one cycle: one per member
CycleEvents(g, members) ==
    LET ts     == CycleTimestamps(g, members)
        in72h  == AllWithin(ts, Window72h)
        inWeek == AllWithin(ts, WindowWeek)
        decay  == AmountDecay(CycleAmounts(g, members))
        c      == CycleContribution(Len(members), in72h, inWeek, decay)
        tags   == <<CycleLengthTag(Len(members))>>
                  \o (IF in72h THEN <<"temporal_burst_72h">>
                      ELSE IF inWeek THEN <<"temporal_burst_week">> ELSE <<>>)
                  \o (IF decay THEN <<"amount_decay">> ELSE <<>>)
    IN [i \in 1..Len(members) |-> Event(members[i], c, tags)]

HubScore(hit) == HubContribution(Cardinality(hit.partners), hit.max_window_count)

\* the hub's contributions of one smurfing hit; high velocity is scored
\* with the hub's first hit
HubEvents(hit, firstOfHub) ==
    <<Event(hit.hub, HubScore(hit),
            <<IF hit.role = "fan_in" THEN "fan_in_hub" ELSE "fan_out_hub">>)>>
    \o (IF firstOfHub /\ hit.window24 >= VelocityThreshold
        THEN <<Event(hit.hub, VelocityContribution(hit.window24),
                     <<"high_velocity">>)>>
        ELSE <<>>)

\* the partners' contributions of one smurfing hit: 0.3 * hub_score each
PeripheralEvents(hit) ==
    LET ps == SortedSeq(hit.partners)
    IN [i \in 1..Len(ps) |->
          Event(ps[i], PeripheralContribution(HubScore(hit)),
                <<IF hit.role = "fan_in" THEN "fan_in_contributor"
                  ELSE "fan_out_receiver">>)]

\* chains through the account a
ChainCount(chains, a) ==
    Cardinality({ i \in 1..Len(chains) : a \in Range(chains[i]) })

\* the contributions of one shell chain: one per member
ShellEvents(chains, path) ==
    [i \in 1..Len(path) |->
        Event(path[i],
              ShellContribution(ChainCount(chains, path[i]), Len(path) - 1),
              <<"shell_chain_member">>)]

\* every contribution of the run, in the order of application: cycle
\* contributions first, then fan/velocity, then shell, then peripheral
ScoreEvents(g, cys, hits, chains) ==
    Flatten([i \in 1..Len(cys) |-> CycleEvents(g, cys[i])])
    \o Flatten([i \in 1..Len(hits) |->
          HubEvents(hits[i],
                    \A j \in 1..(i - 1) : hits[j].hub # hits[i].hub)])
    \o Flatten([i \in 1..Len(chains) |-> ShellEvents(chains, chains[i])])
    \o Flatten([i \in 1..Len(hits) |-> PeripheralEvents(hits[i])])

\* tags are a set kept in order of first detection
AddTags(have, new) ==
    ForEach(LAMBDA tags, t : IF t \in Range(tags) THEN tags
                             ELSE Append(tags, t),
            NoBreak, new, have)

EmptyTable == [scores |-> <<>>, patterns |-> <<>>]

\* the scoring table after one contribution
ApplyEvent(table, e) ==
    LET a    == e.account
        old  == IF a \in DOMAIN table.scores THEN table.scores[a] ELSE 0
        tags == IF a \in DOMAIN table.patterns THEN table.patterns[a] ELSE <<>>
    IN [scores   |-> (a :> ApplyContribution(old, e.c)) @@ table.scores,
        patterns |-> (a :> AddTags(tags, e.tags)) @@ table.patterns]

\* the scoring table of the run
score_accounts(g, cys, hits, chains) ==
    ForEach(ApplyEvent, NoBreak,
            ScoreEvents(g, cys, hits, chains), EmptyTable)

\* ------------------------------------------------------------------------
\* Ring Consolidator & Scorer: rings, deduplication, numbering
\* (README: _build_rings_and_scores, _deduplicate_rings)
\* ------------------------------------------------------------------------
OverlapPct == 85

\* ring risk: the highest member score
RingRisk(scs, members) == SetMax({ scs[m] : m \in Range(members) })

Ring(type, members, scs) ==
    [pattern_type |-> type, member_accounts |-> members,
     risk_score |-> RingRisk(scs, members)]

\* one candidate ring per cycle, per smurfing hit (the hub alone) and per
\* shell chain, in order of construction
build_rings(scs, cys, hits, chains) ==
    [i \in 1..Len(cys) |-> Ring("cycle", cys[i], scs)]
    \o [i \in 1..Len(hits) |-> Ring("smurfing", <<hits[i].hub>>, scs)]
    \o [i \in 1..Len(chains) |-> Ring("shell_network", chains[i], scs)]

Members(r) == Range(r.member_accounts)

\* the overlap taken over the larger ring: |A n B| / max(|A|, |B|) > 0.85
OverlapsOfLarger(A, B) ==
    100 * Cardinality(A \cap B) >
        OverlapPct * Max(Cardinality(A), Cardinality(B))

\* overlap = |A n B| / min(|A|, |B|) > 0.85
Overlaps(A, B) ==
    100 * Cardinality(A \cap B) >
        OverlapPct * Min(Cardinality(A), Cardinality(B))

\* a comes before b when it is to be kept in preference to b: higher
\* score, then larger member set, then earlier construction
Precedes(rs, i, j) ==
    \/ rs[i].risk_score > rs[j].risk_score
    \/ /\ rs[i].risk_score = rs[j].risk_score
       /\ \/ Cardinality(Members(rs[i])) > Cardinality(Members(rs[j]))
          \/ /\ Cardinality(Members(rs[i])) = Cardinality(Members(rs[j]))
             /\ i < j

\* the positions 1..n sorted by the strict total order Before
SortPositions(n, Before(_, _)) == SortSeq([i \in 1..n |-> i], Before)

\* a ring is dropped when a kept ring of its type overlaps it
KeepRing(kept, r) ==
    IF \E k \in 1..Len(kept) :
          /\ kept[k].pattern_type = r.pattern_type
          /\ Overlaps(Members(kept[k]), Members(r))
    THEN kept
    ELSE Append(kept, r)

\* a consolidator that emits every candidate
keep_all_rings(rs) == rs

deduplicate_rings(rs) ==
    ForEach(KeepRing, NoBreak,
            Reorder(rs, SortPositions(Len(rs),
                                      LAMBDA i, j : Precedes(rs, i, j))),
            <<>>)

\* survivors in emission order: risk descending, ties by the smallest
\* member ascending, then as kept
EmitsBefore(rs, i, j) ==
    \/ rs[i].risk_score > rs[j].risk_score
    \/ /\ rs[i].risk_score = rs[j].risk_score
       /\ \/ SetMin(Members(rs[i])) < SetMin(Members(rs[j]))
          \/ /\ SetMin(Members(rs[i])) = SetMin(Members(rs[j]))
             /\ i < j

RECURSIVE Digits(_)
\* the decimal digits of n, most significant first
Digits(n) == IF n < 10 THEN <<n>> ELSE Append(Digits(n \div 10), n % 10)

RingIdWidth == 3

\* "R%03d": zero-padded to three digits, wider when the number needs it
FormatRingId(n) ==
    LET d == Digits(n)
    IN [prefix |-> "R",
        digits |-> [i \in 1..(RingIdWidth - Len(d)) |-> 0] \o d]

NullRingId == [prefix |-> "null", digits |-> <<>>]

\* the numbering begun at zero
renumber_from_zero(rs) ==
    TheOne({ [k \in 1..Len(sorted) |->
                 [ring_id |-> FormatRingId(k - 1),
                  pattern_type |-> sorted[k].pattern_type,
                  member_accounts |-> sorted[k].member_accounts,
                  risk_score |-> sorted[k].risk_score]] :
             sorted \in {Reorder(rs, SortPositions(Len(rs),
                            LAMBDA i, j : EmitsBefore(rs, i, j)))} })

renumber_rings(rs) ==
    TheOne({ [k \in 1..Len(sorted) |->
                 [ring_id |-> FormatRingId(k),
                  pattern_type |-> sorted[k].pattern_type,
                  member_accounts |-> sorted[k].member_accounts,
                  risk_score |-> sorted[k].risk_score]] :
             sorted \in {Reorder(rs, SortPositions(Len(rs),
                            LAMBDA i, j : EmitsBefore(rs, i, j)))} })

\* the last emitted ring the account is a member of
RingIdOfLast(rings, a) ==
    IF \E k \in 1..Len(rings) : a \in Members(rings[k])
    THEN rings[SetMax({ k \in 1..Len(rings) : a \in Members(rings[k]) })].ring_id
    ELSE NullRingId

\* the first emitted ring the account is a member of
RingIdOf(rings, a) ==
    IF \E k \in 1..Len(rings) : a \in Members(rings[k])
    THEN rings[SetMin({ k \in 1..Len(rings) : a \in Members(rings[k]) })].ring_id
    ELSE NullRingId

\* scores are reported rounded to one decimal
RoundScore(s) == (s * 10 + Scale \div 2) \div Scale

\* the suspicious accounts: every account the scorer touched, by score
\* descending, then account id
build_suspicious(table, rings) ==
    MapSeq(LAMBDA a : [account_id |-> a,
                       suspicion_score |-> RoundScore(table.scores[a]),
                       detected_patterns |-> table.patterns[a],
                       ring_id |-> RingIdOf(rings, a)],
           TheOne({ Reorder(ids, SortPositions(Len(ids), LAMBDA i, j :
                        \/ table.scores[ids[i]] > table.scores[ids[j]]
                        \/ /\ table.scores[ids[i]] = table.scores[ids[j]]
                           /\ i < j)) :
                    ids \in {SortedSeq(DOMAIN table.scores)} }))

\* the consolidator as the pipeline runs it
Score ==
    /\ pc = "score"
    /\ \E table \in {score_accounts(Graph, cycles, smurfs, shells)} :
          /\ scores' = table.scores
          /\ patterns' = table.patterns
          /\ candidates' = build_rings(table.scores, cycles, smurfs, shells)
    /\ pc' = StageAfter(pc)
    /\ UNCHANGED <<scoreVars, txs, idx, skipped, graphVars, legitimate,
                   detectVars, fraud_rings, suspicious_accounts,
                   graph_nodes, graph_edges, windowVars, appVars>>

\* the accounts keep the ring ids numbered before the overlapping rings
\* are dropped
DeduplicateStaleIds ==
    /\ pc = "dedup"
    /\ \E kept \in {deduplicate_rings(candidates)} :
          fraud_rings' = renumber_rings(kept)
    /\ suspicious_accounts' =
           build_suspicious([scores |-> scores, patterns |-> patterns],
                            renumber_rings(candidates))
    /\ pc' = StageAfter(pc)
    /\ UNCHANGED <<scoreVars, txs, idx, skipped, graphVars, legitimate,
                   detectVars, scores, patterns, candidates,
                   graph_nodes, graph_edges, windowVars, appVars>>

Deduplicate ==
    /\ pc = "dedup"
    /\ \E kept \in {deduplicate_rings(candidates)} :
          fraud_rings' = renumber_rings(kept)
    /\ suspicious_accounts' =
           build_suspicious([scores |-> scores, patterns |-> patterns],
                            fraud_rings')
    /\ pc' = StageAfter(pc)
    /\ UNCHANGED <<scoreVars, txs, idx, skipped, graphVars, legitimate,
                   detectVars, scores, patterns, candidates,
                   graph_nodes, graph_edges, windowVars, appVars>>

\* ------------------------------------------------------------------------
\* Graph Payload Builder (README: _build_graph_payload; Known Limitations)
\* ------------------------------------------------------------------------
MaxGraphNodes == 800

Degree(st) == st.tx_in + st.tx_out

SuspiciousIds(susp) == { susp[i].account_id : i \in 1..Len(susp) }

\* the non-suspicious accounts by total degree descending, then id
FillOrder(stats, S) ==
    TheOne({ Reorder(ids, SortPositions(Len(ids), LAMBDA i, j :
                 \/ Degree(stats[ids[i]]) > Degree(stats[ids[j]])
                 \/ /\ Degree(stats[ids[i]]) = Degree(stats[ids[j]])
                    /\ i < j)) :
             ids \in {SortedSeq(DOMAIN stats \ S)} })

\* the cap applied to the whole list, suspicious accounts included
PayloadIdsCapped(stats, S) ==
    TheOne({ SubSeq(all, 1, Min(MaxGraphNodes, Len(all))) :
             all \in {SortedSeq(S) \o FillOrder(stats, S)} })

\* every suspicious account, then the rest of the budget from FillOrder
PayloadIds(stats, S) ==
    TheOne({ SortedSeq(S) \o
             SubSeq(fill, 1, Min(Max(0, MaxGraphNodes - Cardinality(S)),
                                 Len(fill))) :
             fill \in {FillOrder(stats, S)} })

Node(stats, S, a) ==
    [id |-> a, tx_in |-> stats[a].tx_in, tx_out |-> stats[a].tx_out,
     total_in |-> stats[a].total_in, total_out |-> stats[a].total_out,
     suspicious |-> a \in S]

payload_nodes(stats, S, ids) ==
    MapSeq(LAMBDA a : Node(stats, S, a), ids)

\* an edge is emitted iff both endpoints are included
payload_edges(g, included) ==
    UNION { { [source |-> a, target |-> b] : b \in g[a] \cap included } :
            a \in included }

BuildGraphPayload ==
    /\ pc = "payload"
    /\ \E S \in {SuspiciousIds(suspicious_accounts)} :
          \E ids \in {PayloadIds(node_stats, S)} :
             /\ graph_nodes' = payload_nodes(node_stats, S, ids)
             /\ graph_edges' = payload_edges(adj, Range(ids))
    /\ pc' = StageAfter(pc)
    /\ UNCHANGED <<scoreVars, txs, idx, skipped, graphVars, legitimate,
                   detectVars, scores, patterns, candidates, fraud_rings,
                   suspicious_accounts, windowVars, appVars>>

\* ------------------------------------------------------------------------
\* Inputs
\* ------------------------------------------------------------------------
\* the candidate transfers of the small graphs: a ring over six accounts
\* and chords that close cycles of length 3, 4 and 5
CandidateEdges ==
    << <<1, 2>>, <<2, 3>>, <<3, 4>>, <<4, 5>>, <<5, 6>>, <<6, 1>>,
       <<3, 1>>, <<4, 1>>, <<5, 1>>, <<4, 2>> >>

\* the rows of the chosen candidate transfers, in the candidates' order
EdgeRows(E) ==
    LET q == SortedSeq(E)
    IN [i \in 1..Len(q) |->
          Tx(CandidateEdges[q[i]][1], CandidateEdges[q[i]][2],
             1000 - 40 * q[i], 60 * q[i])]

SmallInputs == { EdgeRows(E) : E \in SUBSET (1..Len(CandidateEdges)) }

\* n distinct senders first, first + 1, ... each send one transfer to h,
\* two minutes apart
FanIn(h, first, n) ==
    [i \in 1..n |-> Tx(first + i - 1, h, 100 + i, 2 * i)]

\* h sends one transfer to each of n distinct receivers
FanOut(h, first, n) ==
    [i \in 1..n |-> Tx(h, first + i - 1, 100 + i, 2 * i)]

MinSenders == 9
MaxSenders == 13

FanInInputs == { FanIn(1, 2, n) : n \in MinSenders..MaxSenders }

FanOutInputs == { FanOut(1, 2, n) : n \in {FanThreshold, PayrollMinOut} }

\* a fan-in hub 1 one of whose senders, 11, is a payroll disburser
LegitPartnerRows == FanIn(1, 2, FanThreshold) \o FanOut(11, 12, PayrollMinOut - 1)

\* the chain 1 -> 2 -> ... -> k + 1
ChainRows(k) == [i \in 1..k |-> Tx(i, i + 1, 1000 - 10 * i, 60 * i)]

MaxChainHops == 7

\* the chain q[1] -> q[2] -> ... over the accounts of q, its rows in the
\* order of the chain or in the reverse order
ChainOver(q, reversed) ==
    [i \in 1..(Len(q) - 1) |->
        LET k == IF reversed THEN Len(q) - i ELSE i
        IN Tx(q[k], q[k + 1], 1000 - 10 * k, 60 * k)]

\* the four-transfer chain under every numbering of its five accounts
FourHopInputs ==
    { ChainOver(q, b) :
        q \in Permutations(1..5), b \in BOOLEAN }

ShellInputs == { ChainRows(k) : k \in 2..MaxChainHops }

\* the chain 1 -> 2 -> 3 -> 4 whose last account is a high-volume merchant
LegitLastRows == ChainRows(MinShellHops) \o FanIn(4, 5, MerchantMinIn - 1)

\* 20 customers each pay the merchant 1 once; the merchant pays out twice
MerchantRows == FanIn(1, 2, 20) \o <<Tx(1, 22, 50, 100), Tx(1, 23, 50, 101)>>

\* the triangle 1 -> 2 -> 3 -> 1 whose account 1 is a payroll disburser
LegitCycleRows ==
    <<Tx(1, 2, 1000, 0), Tx(2, 3, 950, 60), Tx(3, 1, 910, 120)>>
    \o FanOut(1, 4, PayrollMinOut - 1)

\* triangles over 1, 2, 3: parallel transfers, and hops spread over
\* hours, days and weeks
TriangleInputs ==
    { <<Tx(1, 2, 1000, 0), Tx(2, 3, 950, d), Tx(3, 1, 910, 2 * d)>> :
        d \in {60, Window72h \div 2, Window72h, WindowWeek} }
    \cup { <<Tx(1, 2, 1000, 0), Tx(1, 2, 500, WindowWeek),
             Tx(2, 3, 950, 60), Tx(3, 1, 910, 120)>> }

\* two cycles of length 4 sharing three members
OverlapRows ==
    <<Tx(1, 2, 1000, 0), Tx(2, 3, 950, 60), Tx(3, 4, 910, 120),
      Tx(4, 1, 880, 180), Tx(3, 5, 900, 130), Tx(5, 1, 870, 190)>>

\* no row, rejected rows only (self-transfer, non-positive amount), and
\* rejected rows among valid ones
RejectInputs ==
    { <<>>,
      <<Tx(1, 1, 100, 0)>>,
      <<Tx(1, 2, 0, 0)>>,
      <<Tx(1, 1, 100, 0), Tx(2, 3, 0, 1), Tx(3, 3, 5, 2)>>,
      <<Tx(1, 2, 1000, 0), Tx(2, 2, 10, 30), Tx(2, 3, 950, 60),
        Tx(3, 1, 0, 90), Tx(3, 1, 910, 120)>> }

\* two cycles of length 3 that share the account 1, the second with the
\* smaller amounts
SharedAccountRows ==
    <<Tx(1, 2, 1000, 0), Tx(2, 3, 950, 60), Tx(3, 1, 910, 120),
      Tx(1, 4, 500, 20000), Tx(4, 5, 500, 40000), Tx(5, 1, 500, 60000)>>

\* one export line repeated, beside parallel transfers of other amounts and a
\* rejected self-transfer
RepeatedRows ==
    <<Tx(1, 2, 300, 10), Tx(1, 2, 300, 10), Tx(1, 2, 450, 90), Tx(2, 2, 70, 95),
      Tx(2, 1, 120, 200), Tx(1, 2, 300, 10), Tx(3, 2, 80, 400)>>

\* two chains of seven accounts that share six: 6 pays both 7 and 8
TwinChainRows ==
    <<Tx(1, 2, 1000, 0), Tx(2, 3, 990, 60), Tx(3, 4, 980, 120),
      Tx(4, 5, 970, 180), Tx(5, 6, 960, 240), Tx(6, 7, 500, 300),
      Tx(6, 8, 450, 310)>>

ScenarioInputs ==
    FanInInputs \cup FanOutInputs \cup ShellInputs \cup TriangleInputs
    \cup RejectInputs \cup FourHopInputs
    \cup {LegitPartnerRows, LegitLastRows, MerchantRows, LegitCycleRows,
          OverlapRows, SharedAccountRows, RepeatedRows,
          TwinChainRows}

CompleteSize == 8

\* every transfer a -> b among CompleteSize accounts: more than 500 cycles
CompleteRows ==
    LET n == CompleteSize
        q == SelectSeq([x \in 1..(n * n) |-> x],
                       LAMBDA x : (x - 1) \div n # (x - 1) % n)
    IN [i \in 1..Len(q) |->
          Tx(((q[i] - 1) \div n) + 1, ((q[i] - 1) % n) + 1, 100, i)]

\* t disjoint triangles over the accounts 1..3t, then a chain of p
\* transfers over the next p + 1 accounts
TrianglesRows(t, p) ==
    [j \in 1..(3 * t) |->
        LET b == 3 * ((j - 1) \div 3)
            k == (j - 1) % 3
        IN Tx(b + k + 1, b + ((k + 1) % 3) + 1, 1000 - 30 * k, j)]
    \o [j \in 1..p |-> Tx(3 * t + j, 3 * t + j + 1, 100, j)]

PayloadTriangles == 266
PayloadPairs == 2

\* accounts at, just under and over the payload cap
LargeInputs ==
    { CompleteRows,
      TrianglesRows(PayloadTriangles, PayloadPairs),
      TrianglesRows(PayloadTriangles + 1, PayloadPairs),
      TrianglesRows(PayloadTriangles - 1, PayloadPairs) }

BigShellPairs == 981
BigShellShift == 7

\* accounts a(i) = 2i + 1 and b(i) = 2i + 2 with the transfers
\* a(i) -> b(i), a(i) -> b(i + 1) and b(i) -> a(i + shift): every account
\* has three transactions, and the shell search exceeds its step budget
BigShellRows ==
    LET m    == BigShellPairs
        a(i) == 2 * (i % m) + 1
        b(i) == 2 * (i % m) + 2
    IN [j \in 1..(3 * m) |->
          LET i == (j - 1) \div 3
              k == (j - 1) % 3
          IN IF k = 0 THEN Tx(a(i), b(i), 100, j)
             ELSE IF k = 1 THEN Tx(a(i), b(i + 1), 100, j)
             ELSE Tx(b(i), a(i + BigShellShift), 100, j)]

ReportIdle ==
    /\ sorted_accounts = <<>>
    /\ legitimate = {}
    /\ cycles = <<>>
    /\ smurfs = <<>>
    /\ shells = <<>>
    /\ bfs_steps = 0
    /\ scores = <<>>
    /\ patterns = <<>>
    /\ candidates = <<>>
    /\ fraud_rings = <<>>
    /\ suspicious_accounts = <<>>
    /\ graph_nodes = <<>>
    /\ graph_edges = {}

\* the pipeline is handed one of the inputs and has read no row
PipelineInit(inputs) ==
    /\ txs \in inputs
    /\ pc = "build"
    /\ idx = 0
    /\ skipped = 0
    /\ adj = <<>>
    /\ rev = <<>>
    /\ edges_by_source = <<>>
    /\ edges_by_target = <<>>
    /\ node_stats = <<>>
    /\ ReportIdle
    /\ ScoreIdle
    /\ WindowIdle
    /\ AppIdle

\* the pipeline has read every row of one of the inputs, all valid
BuiltInit(inputs) ==
    /\ txs \in inputs
    /\ pc = "build"
    /\ idx = Len(txs)
    /\ skipped = 0
    /\ LET g == build_graph(txs)
       IN /\ adj = g.adj
          /\ rev = g.rev
          /\ edges_by_source = g.edges_by_source
          /\ edges_by_target = g.edges_by_target
          /\ node_stats = g.node_stats
    /\ ReportIdle
    /\ ScoreIdle
    /\ WindowIdle
    /\ AppIdle

Init == PipelineInit(SmallInputs \cup ScenarioInputs)

Next ==
    \/ Ingest
    \/ BuildDone
    \/ Filter
    \/ DetectCycles
    \/ DetectSmurfing
    \/ DetectShells
    \/ Score
    \/ Deduplicate
    \/ BuildGraphPayload

Spec == Init /\ [][Next]_vars

\* ------------------------------------------------------------------------
\* The deduplication and numbering on their own: candidate rings in any
\* number and order over a scored set of accounts
\* ------------------------------------------------------------------------
MaxCandidates == 3
RingAccounts == 9

\* member lists: equal sets in different order, subsets, rings sharing
\* three of four or six of seven members, and disjoint rings
MemberLists ==
    { <<1>>, <<2>>, <<1, 2, 3>>, <<1, 3, 2>>, <<2, 3, 4>>, <<1, 2, 3, 4>>,
      <<1, 2, 3, 5>>, <<1, 2, 3, 4, 5, 6, 7>>, <<2, 3, 4, 5, 6, 7, 8>>,
      <<7, 8, 9>> }

ScoreTables ==
    { [a \in 1..RingAccounts |-> 50 * Scale],
      [a \in 1..RingAccounts |-> 10 * a * Scale],
      [a \in 1..RingAccounts |-> (ScoreCap - 10 * a) * Scale],
      [a \in 1..RingAccounts |-> IF a % 2 = 0 THEN 80 * Scale ELSE 30 * Scale] }

RingTypes == {"cycle", "smurfing", "shell_network"}

MinShellMembers == MinShellHops + 1
MaxShellMembers == MaxShellHops + 1

\* a cycle ring has 3 to 5 members, a smurfing ring its hub alone, a shell
\* ring the 4 to 7 accounts of its chain
CandidateShapes ==
    { sh \in RingTypes \X MemberLists :
        CASE sh[1] = "cycle" ->
                Len(sh[2]) \in MinCycleLen..MaxCycleLen
          [] sh[1] = "smurfing" -> Len(sh[2]) = 1
          [] OTHER -> Len(sh[2]) \in MinShellMembers..MaxShellMembers }

CandidateLists ==
    UNION { [1..n -> CandidateShapes] : n \in 0..MaxCandidates }

DedupInit ==
    /\ pc = "dedup"
    /\ scores \in ScoreTables
    /\ patterns = [a \in 1..RingAccounts |-> <<"shell_chain_member">>]
    /\ \E shapes \in CandidateLists :
          candidates = [k \in 1..Len(shapes) |->
                           Ring(shapes[k][1], shapes[k][2], scores)]
    /\ txs = <<>>
    /\ idx = 0
    /\ skipped = 0
    /\ adj = <<>>
    /\ rev = <<>>
    /\ edges_by_source = <<>>
    /\ edges_by_target = <<>>
    /\ node_stats = <<>>
    /\ sorted_accounts = <<>>
    /\ legitimate = {}
    /\ cycles = <<>>
    /\ smurfs = <<>>
    /\ shells = <<>>
    /\ bfs_steps = 0
    /\ fraud_rings = <<>>
    /\ suspicious_accounts = <<>>
    /\ graph_nodes = <<>>
    /\ graph_edges = {}
    /\ ScoreIdle
    /\ WindowIdle
    /\ AppIdle

DedupNext == Deduplicate

DedupSpec == DedupInit /\ [][DedupNext]_vars

\* ------------------------------------------------------------------------
\* The detectors at their budgets: the pipeline up to the consolidator, on
\* the small inputs and on one input that exceeds both budgets
\* ------------------------------------------------------------------------
\* the rows with every account number raised by d
ShiftRows(rows, d) ==
    [i \in 1..Len(rows) |->
        Tx(rows[i].s + d, rows[i].r + d, rows[i].amt, rows[i].ts)]

\* a complete graph beside the shell network
BudgetRows == CompleteRows \o ShiftRows(BigShellRows, CompleteSize)

DetectInit == PipelineInit(SmallInputs) \/ BuiltInit({BudgetRows})

DetectNext ==
    \/ Ingest
    \/ BuildDone
    \/ Filter
    \/ DetectCycles
    \/ DetectSmurfing
    \/ DetectShells

DetectSpec == DetectInit /\ [][DetectNext]_vars

\* ------------------------------------------------------------------------
\* The whole pipeline on the scenarios and on inputs around the cycle cap
\* and the payload cap
\* ------------------------------------------------------------------------
CapInit == PipelineInit(ScenarioInputs) \/ BuiltInit(LargeInputs)

CapSpec == CapInit /\ [][Next]_vars

\* ------------------------------------------------------------------------
\* The pipeline as one sequential call: a stage runs as soon as the stage
\* before it has returned
\* ------------------------------------------------------------------------
LiveSpec == Init /\ [][Next]_vars /\ WF_vars(Next)

\* ------------------------------------------------------------------------
\* C1: no account that satisfies a legitimacy rule is a member of an
\* emitted ring or is listed in suspicious_accounts.
\* ------------------------------------------------------------------------
RingMembers == UNION { Members(fraud_rings[k]) : k \in 1..Len(fraud_rings) }

C1_LegitimateExcluded ==
    \A a \in legitimate :
        /\ a \notin RingMembers
        /\ a \notin SuspiciousIds(suspicious_accounts)

\* ------------------------------------------------------------------------
\* C2: in every intermediate and final state of the accumulation the
\* account's suspicion score lies in [0, 100].
\* ------------------------------------------------------------------------
C2_ScoreBounds == 0 <= score /\ score <= ScoreCap * Scale

\* a score that the clamp cut back to 100: two contributions were applied
\* and the unclamped formula would have left the account above 100
C2_Witness ==
    /\ applied >= 2
    /\ score = ScoreCap * Scale

\* ------------------------------------------------------------------------
\* C3: stacking contributions that are each weaker than a cycle base
\* (c < 75) never brings the accumulated score to 100.
\* ------------------------------------------------------------------------
C3_WeakNeverSaturates == weakOnly => score < ScoreCap * Scale

\* ------------------------------------------------------------------------
\* C4: after deduplication any two distinct surviving rings of the same
\* pattern_type have |A n B| / min(|A|, |B|) <= 0.85.
\* ------------------------------------------------------------------------
C4_DedupCorrect ==
    \A i, j \in 1..Len(fraud_rings) :
        (i # j /\ fraud_rings[i].pattern_type = fraud_rings[j].pattern_type)
        => LET A == Range(fraud_rings[i].member_accounts)
               B == Range(fraud_rings[j].member_accounts)
           IN 100 * Cardinality(A \cap B) <=
                  85 * Min(Cardinality(A), Cardinality(B))

\* the deduplication dropped a candidate and kept two rings of one type
\* that share members
C4_Witness ==
    /\ pc # "dedup"
    /\ Len(fraud_rings) < Len(candidates)
    /\ \E i, j \in 1..Len(fraud_rings) :
          /\ i # j
          /\ fraud_rings[i].pattern_type = fraud_rings[j].pattern_type
          /\ Members(fraud_rings[i]) \cap Members(fraud_rings[j]) # {}

\* ------------------------------------------------------------------------
\* C5: the emitted rings carry exactly the ids R001..R{N}, each once, and
\* in ascending id order their risk never increases, equal risks being
\* ordered by ascending smallest member.
\* ------------------------------------------------------------------------
RingNumber(r) ==
    100 * r.ring_id.digits[1] + 10 * r.ring_id.digits[2] + r.ring_id.digits[3]

C5_RingDensity ==
    LET N == Len(fraud_rings)
    IN /\ \A k \in 1..N :
            /\ fraud_rings[k].ring_id.prefix = "R"
            /\ Len(fraud_rings[k].ring_id.digits) = 3
       /\ { RingNumber(fraud_rings[k]) : k \in 1..N } = 1..N
       /\ \A i, j \in 1..N :
            RingNumber(fraud_rings[i]) < RingNumber(fraud_rings[j])
            => /\ i < j
               /\ fraud_rings[i].risk_score >= fraud_rings[j].risk_score
               /\ fraud_rings[i].risk_score = fraud_rings[j].risk_score
                  => SetMin(Members(fraud_rings[i]))
                        <= SetMin(Members(fraud_rings[j]))

\* three rings were emitted, two of them with equal risk, and the
\* numbering did not follow the order of construction
C5_Witness ==
    /\ Len(fraud_rings) >= 3
    /\ \E i, j \in 1..Len(fraud_rings) :
          i # j /\ fraud_rings[i].risk_score = fraud_rings[j].risk_score
    /\ \E i, j \in 1..Len(fraud_rings) :
          fraud_rings[i].risk_score > fraud_rings[j].risk_score
    /\ \E k \in 1..Len(fraud_rings) :
          fraud_rings[k].member_accounts # candidates[k].member_accounts

\* ------------------------------------------------------------------------
\* C6: on a graph with fewer than 500 cycles the Cycle Detector records
\* each simple directed cycle of length 3, 4 or 5 among non-legitimate
\* accounts exactly once and no cycle of another length, and the first
\* member of a recorded cycle is the smallest member of the cycle.
\* ------------------------------------------------------------------------
RECURSIVE SimplePaths(_, _)
\* the simple directed paths of k accounts among the non-legitimate ones
SimplePaths(V, k) ==
    IF k = 1 THEN { <<a>> : a \in V }
    ELSE UNION { { Append(q, n) : n \in (adj[q[Len(q)]] \cap V) \ Range(q) } :
                 q \in SimplePaths(V, k - 1) }

\* the simple directed cycles of k accounts, each written from its
\* smallest member
SimpleCycles(k) ==
    { q \in SimplePaths(Accounts \ legitimate, k) :
        /\ q[1] \in adj[q[k]]
        /\ q[1] = SetMin(Range(q)) }

C6_CyclesExactlyOnce ==
    (pc = "smurfing" /\ Len(cycles) < 500)
    => /\ Range(cycles) = SimpleCycles(3) \cup SimpleCycles(4) \cup SimpleCycles(5)
       /\ Cardinality(Range(cycles)) = Len(cycles)
       /\ \A k \in 1..Len(cycles) :
             /\ Len(cycles[k]) \in {3, 4, 5}
             /\ cycles[k][1] = SetMin(Range(cycles[k]))

\* cycles of each length were recorded, two of them through the same
\* accounts, on a graph that also holds a cycle of six accounts
C6_Witness ==
    /\ pc = "smurfing"
    /\ \A n \in {3, 4, 5} : \E k \in 1..Len(cycles) : Len(cycles[k]) = n
    /\ \E i, j \in 1..Len(cycles) :
          i # j /\ Range(cycles[i]) \subseteq Range(cycles[j])
    /\ SimplePaths(Accounts, 6) # {}

\* ------------------------------------------------------------------------
\* C7: the accepted cycles never exceed 500 and the shell BFS steps never
\* exceed the step budget; a graph that admits more than 500 cycles yields
\* exactly 500; a detector that hit its budget has returned what it had
\* accepted and the run goes on.
\* ------------------------------------------------------------------------
AfterCycles == pc \notin {"build", "filter", "cycles"}

AfterShells == pc \notin {"build", "filter", "cycles", "smurfing", "shells"}

AdmittedCycles ==
    Cardinality(SimpleCycles(3)) + Cardinality(SimpleCycles(4))
        + Cardinality(SimpleCycles(5))

C7_BudgetRespect ==
    /\ Len(cycles) <= 500
    /\ bfs_steps <= 50000
    /\ (pc = "smurfing" /\ AdmittedCycles > 500) => Len(cycles) = 500
    /\ Len(cycles) = 500 => AfterCycles
    /\ bfs_steps = 50000 => (AfterShells /\ Len(shells) > 0)

\* one run in which both detectors stopped at their budgets
C7_Witness ==
    /\ AfterShells
    /\ Len(cycles) = 500
    /\ bfs_steps = 50000
    /\ Len(shells) > 0

\* ------------------------------------------------------------------------
\* C8: every run of the pipeline reaches its final stage, and a run whose
\* input has no valid row ends with an empty report.
\* ------------------------------------------------------------------------
EmptyReport ==
    /\ fraud_rings = <<>>
    /\ suspicious_accounts = <<>>
    /\ graph_nodes = <<>>
    /\ graph_edges = {}

NodeIds == { graph_nodes[k].id : k \in 1..Len(graph_nodes) }

SuspiciousPresent ==
    \A a \in SuspiciousIds(suspicious_accounts) :
        \E k \in 1..Len(graph_nodes) :
            graph_nodes[k].id = a /\ graph_nodes[k].suspicious

EdgesOfIncluded ==
    /\ \A e \in graph_edges :
          /\ e.source \in NodeIds
          /\ e.target \in NodeIds
          /\ e.target \in adj[e.source]
    /\ \A a \in NodeIds : \A b \in adj[a] \cap NodeIds :
          [source |-> a, target |-> b] \in graph_edges

FanInRun(n, h) ==
    /\ Len(txs) = n
    /\ \A i \in 1..n : ValidRow(txs[i]) /\ txs[i].r = h /\ txs[i].s # h
    /\ \A i, j \in 1..n : i # j => txs[i].s # txs[j].s
    /\ \A i, j \in 1..n : txs[i].ts - txs[j].ts <= 30

Senders == { txs[i].s : i \in 1..Len(txs) }

HubRingOnly(h) ==
    /\ Len(fraud_rings) = 1
    /\ fraud_rings[1].pattern_type = "smurfing"
    /\ Range(fraud_rings[1].member_accounts) = {h}

SendersPeripheral ==
    \A a \in Senders :
        \E k \in 1..Len(suspicious_accounts) :
            /\ suspicious_accounts[k].account_id = a
            /\ suspicious_accounts[k].ring_id.prefix = "null"
            /\ suspicious_accounts[k].detected_patterns = <<"fan_in_contributor">>

C10_FanInHub ==
    \A h \in Accounts :
        (pc = "done" /\ FanInRun(12, h))
        => (HubRingOnly(h) /\ SendersPeripheral)

\* C10 as the pipeline runs it: the outcome is that of 10 or 11 senders;
\* with 12 senders or more H has the shape of a high-volume merchant, is
\* legitimate, and the report has no ring and no suspicious account.
C10_FanInHubAmended ==
    \A h \in Accounts : \A n \in 10..Len(txs) :
        (pc = "done" /\ FanInRun(n, h))
        => IF n < 12
           THEN HubRingOnly(h) /\ SendersPeripheral
           ELSE fraud_rings = <<>> /\ suspicious_accounts = <<>>
                /\ h \in legitimate

\* the run of 11 senders has ended with its hub ring
C10_Witness ==
    /\ pc = "done"
    /\ \E h \in Accounts : FanInRun(11, h) /\ HubRingOnly(h)
    /\ Len(suspicious_accounts) = 12

\* ------------------------------------------------------------------------
\* C11: the four transfers A -> X1 -> X2 -> X3 -> B yield exactly one ring,
\* of type shell_network, whose members are the five accounts; the
\* sub-chains of three hops do not survive beside it or in its place.
\* ------------------------------------------------------------------------
\* the input is a simple chain of four transfers over five accounts
FourHopChain ==
    /\ Len(txs) = 4
    /\ \A i \in 1..4 : ValidRow(txs[i])
    /\ Cardinality(Accounts) = 5
    /\ \E q \in [1..5 -> Accounts] :
          /\ Range(q) = Accounts
          /\ { <<txs[i].s, txs[i].r>> : i \in 1..4 }
                = { <<q[i], q[i + 1]>> : i \in 1..4 }

C11_ShellChainOneRing ==
    (pc = "done" /\ FourHopChain)
    => /\ Len(fraud_rings) = 1
       /\ fraud_rings[1].pattern_type = "shell_network"
       /\ Members(fraud_rings[1]) = Accounts
       /\ Len(fraud_rings[1].member_accounts) = 5

\* the chain's accounts are not numbered along the chain, both sub-chains
\* were candidates, and the one ring emitted is the whole chain
C11_Witness ==
    /\ pc = "done"
    /\ FourHopChain
    /\ Len(candidates) = 3
    /\ Len(fraud_rings) = 1
    /\ fraud_rings[1].member_accounts[1] # SetMin(Accounts)
    /\ candidates[1].member_accounts # fraud_rings[1].member_accounts

\* ------------------------------------------------------------------------
\* C12: no account is listed in member_accounts of two different surviving
\* rings of the same pattern_type.
\* ------------------------------------------------------------------------
RingsOf(a, type) ==
    { k \in 1..Len(fraud_rings) :
        /\ fraud_rings[k].pattern_type = type
        /\ a \in Members(fraud_rings[k]) }

ReportedRingId(a) ==
    { suspicious_accounts[k].ring_id :
        k \in { i \in 1..Len(suspicious_accounts) :
                  suspicious_accounts[i].account_id = a } }

Detectors == {"c", "s", "h"}

DetectStage(ran) ==
    CASE ran = {}              -> "cycles"
      [] ran = {"c"}           -> "ran_c"
      [] ran = {"s"}           -> "ran_s"
      [] ran = {"h"}           -> "ran_h"
      [] ran = {"c", "s"}      -> "ran_cs"
      [] ran = {"c", "h"}      -> "ran_ch"
      [] ran = {"s", "h"}      -> "ran_sh"
      [] OTHER                 -> "score"

\* the detector d is started after the detectors of ran have returned
Starts(d, ran) == d \notin ran /\ pc = DetectStage(ran)

\* a shell detector that passes over the accounts the cycle detector has
\* flagged so far
RunShellsSkippingFlagged ==
    /\ \E ran \in SUBSET Detectors :
          Starts("h", ran) /\ pc' = DetectStage(ran \cup {"h"})
    /\ \E r \in {detect_shell_networks(adj, node_stats,
                       legitimate \cup UNION { Range(cycles[k]) :
                                                  k \in 1..Len(cycles) },
                       sorted_accounts)} :
          /\ shells' = r.chains
          /\ bfs_steps' = r.steps
    /\ UNCHANGED <<txs, idx, skipped, graphVars, legitimate,
                   cycles, smurfs, reportVars, scoreVars, windowVars, appVars>>

RunCycles ==
    /\ \E ran \in SUBSET Detectors :
          Starts("c", ran) /\ pc' = DetectStage(ran \cup {"c"})
    /\ cycles' = detect_cycles(adj, legitimate, sorted_accounts)
    /\ UNCHANGED <<txs, idx, skipped, graphVars, legitimate,
                   smurfs, shells, bfs_steps, reportVars, scoreVars,
                   windowVars, appVars>>

RunSmurfing ==
    /\ \E ran \in SUBSET Detectors :
          Starts("s", ran) /\ pc' = DetectStage(ran \cup {"s"})
    /\ smurfs' = detect_smurfing(Graph, legitimate, sorted_accounts)
    /\ UNCHANGED <<txs, idx, skipped, graphVars, legitimate,
                   cycles, shells, bfs_steps, reportVars, scoreVars,
                   windowVars, appVars>>

RunShells ==
    /\ \E ran \in SUBSET Detectors :
          Starts("h", ran) /\ pc' = DetectStage(ran \cup {"h"})
    /\ \E r \in {detect_shell_networks(adj, node_stats, legitimate,
                                        sorted_accounts)} :
          /\ shells' = r.chains
          /\ bfs_steps' = r.steps
    /\ UNCHANGED <<txs, idx, skipped, graphVars, legitimate,
                   cycles, smurfs, reportVars, scoreVars, windowVars, appVars>>

OrderNext ==
    \/ Ingest
    \/ BuildDone
    \/ Filter
    \/ RunCycles
    \/ RunSmurfing
    \/ RunShells

OrderSpec == DetectInit /\ [][OrderNext]_vars

IngestedRows == SelectSeq(SubSeq(txs, 1, idx), ValidRow)

RowsFrom(a) == SelectSeq(IngestedRows, LAMBDA t : t.s = a)

RowsTo(a) == SelectSeq(IngestedRows, LAMBDA t : t.r = a)

SumOfAmounts(rows) == ForEach(LAMBDA acc, t : acc + t.amt, NoBreak, rows, 0)

EdgeAccounts ==
    { IngestedRows[k].s : k \in 1..Len(IngestedRows) } \cup
    { IngestedRows[k].r : k \in 1..Len(IngestedRows) }

EdgePartners(es) == { es[k].partner : k \in 1..Len(es) }

\* C14: after any prefix of the input is ingested, the node index holds
\* exactly the accounts of the ingested transfers, each once; every account's
\* tx_in + tx_out is the number of its timestamps; total_in and total_out are
\* the sums of the amounts of its incoming and outgoing transfers, parallel
\* and repeated rows counted separately; adj[a] is the set of partners in
\* edges_by_source[a]
C14_GraphInvariants ==
    /\ DOMAIN node_stats = EdgeAccounts
    /\ DOMAIN adj = EdgeAccounts
    /\ DOMAIN edges_by_source = EdgeAccounts
    /\ pc # "build" =>
          /\ Len(sorted_accounts) = Cardinality(EdgeAccounts)
          /\ { sorted_accounts[k] : k \in 1..Len(sorted_accounts) } = EdgeAccounts
    /\ \A a \in DOMAIN node_stats :
          /\ node_stats[a].tx_in + node_stats[a].tx_out
                = Len(node_stats[a].timestamps)
          /\ node_stats[a].tx_in = Len(RowsTo(a))
          /\ node_stats[a].tx_out = Len(RowsFrom(a))
          /\ node_stats[a].total_in = SumOfAmounts(RowsTo(a))
          /\ node_stats[a].total_out = SumOfAmounts(RowsFrom(a))
          /\ adj[a] = EdgePartners(edges_by_source[a])

\* the whole input is ingested, one pair of accounts has parallel transfers
\* and one row occurs twice
C14_Witness ==
    /\ pc # "build"
    /\ \E a \in DOMAIN adj :
          Len(edges_by_source[a]) > Cardinality(adj[a])
    /\ \E i, j \in 1..Len(IngestedRows) :
          i < j /\ IngestedRows[i] = IngestedRows[j]


\* ------------------------------------------------------------------------
\* The sliding window as the loop the README gives, one iteration per step
\* ------------------------------------------------------------------------
MaxStamps == 4

\* instants around the 72-hour boundary, in minutes
Instants == {0, 1, Window72h, Window72h + 1, 2 * Window72h, 2 * Window72h + 1}

IsAscending(q) == \A k \in 1..(Len(q) - 1) : q[k] <= q[k + 1]

SortedStamps ==
    { q \in UNION { [1..n -> Instants] : n \in 0..MaxStamps } : IsAscending(q) }

WindowInit ==
    /\ stamps \in SortedStamps
    /\ right = 0
    /\ left = 1
    /\ max_window = 0
    /\ ScoreIdle
    /\ PipelineIdle
    /\ AppIdle

\* one iteration: i moves right, j advances while ts[i] - ts[j] > 72h,
\* max_window = max(max_window, i - j + 1)
WindowStep ==
    /\ right < Len(stamps)
    /\ right' = right + 1
    /\ left' = AdvanceLeft(stamps, Window72h, right + 1, left)
    /\ max_window' = Max(max_window, (right + 1) - left' + 1)
    /\ UNCHANGED <<stamps, scoreVars, pipelineVars, appVars>>

WindowNext == WindowStep

WindowSpec == WindowInit /\ [][WindowNext]_vars

\* the instants of q inside the closed interval [lo, hi]
CountWithin(q, lo, hi) ==
    Cardinality({ k \in 1..Len(q) : lo <= q[k] /\ q[k] <= hi })

\* the largest count over every interval of w minutes that meets the data
BruteForceWindow(q, w) ==
    IF q = <<>> THEN 0
    ELSE SetMax({ CountWithin(q, t, t + w) : t \in (q[1] - w)..q[Len(q)] })

\* C15: once the loop has consumed an ascending sequence of instants,
\* max_window is the largest number of instants inside any closed 72-hour
\* interval, as counted interval by interval; two instants exactly 72 hours
\* apart share a window; max_window_count computes the same number
C15_WindowIsBruteForce ==
    right = Len(stamps) =>
        /\ max_window = BruteForceWindow(stamps, Window72h)
        /\ max_window_count(stamps, Window72h) = max_window

\* the loop has finished on instants of which two lie exactly 72 hours apart
\* and bound the best window, while a later instant falls outside it
C15_Witness ==
    /\ right = Len(stamps)
    /\ max_window < Len(stamps)
    /\ \E a, b \in 1..Len(stamps) :
          /\ stamps[b] - stamps[a] = Window72h
          /\ max_window = b - a + 1
          /\ max_window >= 2


\* ------------------------------------------------------------------------
\* C17: the ring an account reports
\* ------------------------------------------------------------------------
PeripheralTags == {"fan_in_contributor", "fan_out_receiver"}

\* the candidate rings deduplication dropped
DroppedCandidates ==
    { k \in 1..Len(candidates) :
        \A r \in Range(fraud_rings) :
            \/ r.pattern_type # candidates[k].pattern_type
            \/ r.member_accounts # candidates[k].member_accounts }

\* C17: every suspicious account with a ring_id other than null names a
\* ring of fraud_rings, as deduplicated and renumbered, that lists the
\* account among its members; an account whose only patterns are those of a
\* smurfing peripheral has ring_id = null
C17_RingIdNamesSurvivor ==
    \A k \in 1..Len(suspicious_accounts) :
        LET acc == suspicious_accounts[k]
        IN  /\ acc.ring_id # NullRingId =>
                 \E r \in Range(fraud_rings) :
                     /\ r.ring_id = acc.ring_id
                     /\ acc.account_id \in Members(r)
            /\ ( /\ acc.detected_patterns # <<>>
                 /\ Range(acc.detected_patterns) \subseteq PeripheralTags )
               => acc.ring_id = NullRingId

\* a report where one of two seven-member shell chains sharing six members
\* was dropped and the dropped chain's own account reports a surviving ring
C17_Witness ==
    /\ pc = "done"
    /\ \E k \in DroppedCandidates :
          /\ Len(candidates[k].member_accounts) = 7
          /\ \E r \in Range(fraud_rings) :
                /\ Len(r.member_accounts) = 7
                /\ Cardinality(Members(r) \cap Members(candidates[k])) = 6
                /\ \E a \in Members(candidates[k]) \ Members(r) :
                      /\ ReportedRingId(a) # {NullRingId}
                      /\ ReportedRingId(a) # {r.ring_id}
                      /\ ReportedRingId(a) # {}


\* ========================================================================
\* The App component (App.jsx) and its upload zone (UploadZone.jsx)
\* ========================================================================
\* Time is counted in units of 100 ms.  A request is named by its number;
\* result and error hold the number of the request whose response or
\* failure they show, 0 standing for null.
MaxRequests == 2

TickDelay == 4          \* setTimeout(tick, 400)
RenderDelay == 3        \* setTimeout(() => { setResult(data); ... }, 300)
DonePct == 100          \* { pct: 100, label: 'Done!' }

\* the pct of the stages handed to fakeProgress
AnalyzeStages == <<10, 28, 48, 65, 80, 92, 98>>

SampleStages == <<15, 40, 60, 85, 98>>

\* the pending callback tick of a fakeProgress call that has shown n stages
TickTimer(run, stages, n) ==
    [kind |-> "tick", run |-> run, due |-> TickDelay, stages |-> stages,
     shown |-> n]

\* the pending callback that renders the response of a request
RenderTimer(run) ==
    [kind |-> "render", run |-> run, due |-> RenderDelay, stages |-> <<>>,
     shown |-> 0]

\* the common body of analyze and loadSample up to the await: the state is
\* cleared, fakeProgress shows the first stage and arms its timer, the
\* request is posted
StartRequest(stages) ==
    /\ started < MaxRequests
    /\ started' = started + 1
    /\ error' = 0
    /\ result' = 0
    /\ loading' = TRUE
    /\ progress' = stages[1]
    /\ timers' = timers \cup {TickTimer(started + 1, stages, 1)}
    /\ inflight' = inflight \cup {started + 1}
    /\ UNCHANGED <<scoreVars, pipelineVars, windowVars>>

analyze == StartRequest(AnalyzeStages)

loadSample == StartRequest(SampleStages)

\* handleChange: the file picked in the input's dialog is handed to onFile;
\* the dialog is opened by a click on the zone, ignored while loading, or by
\* the Select CSV File button, rendered while not loading
handleChange == ~loading /\ analyze

\* the sample link, rendered while not loading
ClickSample == ~loading /\ loadSample

\* handleDrop: a dropped file whose name ends in .csv is handed to onFile
handleDrop ==
    \E csv \in BOOLEAN :
        IF csv THEN analyze
        ELSE /\ started < MaxRequests
             /\ UNCHANGED vars

\* reset, offered by the DownloadBar while a result is shown
reset ==
    /\ result # 0
    /\ result' = 0
    /\ error' = 0
    /\ loading' = FALSE
    /\ UNCHANGED <<progress, started, inflight, timers,
                       scoreVars, pipelineVars, windowVars>>

\* the post resolves: progress is set to Done! and the render is delayed
RequestSucceeds ==
    \E run \in inflight :
        /\ inflight' = inflight \ {run}
        /\ progress' = DonePct
        /\ timers' = timers \cup {RenderTimer(run)}
        /\ UNCHANGED <<result, loading, error, started,
                       scoreVars, pipelineVars, windowVars>>

\* the post rejects (server error, network error or the axios timeout)
RequestFails ==
    \E run \in inflight :
        /\ inflight' = inflight \ {run}
        /\ error' = run
        /\ loading' = FALSE
        /\ UNCHANGED <<result, progress, started, timers,
                       scoreVars, pipelineVars, windowVars>>

\* a due tick: past the last stage it returns, else it shows the next stage
\* and arms itself again
tick ==
    \E t \in timers :
        /\ t.kind = "tick"
        /\ t.due = 0
        /\ IF t.shown >= Len(t.stages)
           THEN /\ timers' = timers \ {t}
                /\ UNCHANGED progress
           ELSE /\ progress' = t.stages[t.shown + 1]
                /\ timers' = (timers \ {t})
                               \cup {TickTimer(t.run, t.stages, t.shown + 1)}
        /\ UNCHANGED <<result, loading, error, started, inflight,
                       scoreVars, pipelineVars, windowVars>>

\* a due delayed render: setResult(data); setLoading(false)
Render ==
    \E t \in timers :
        /\ t.kind = "render"
        /\ t.due = 0
        /\ result' = t.run
        /\ loading' = FALSE
        /\ timers' = timers \ {t}
        /\ UNCHANGED <<progress, error, started, inflight,
                       scoreVars, pipelineVars, windowVars>>

\* 100 ms pass; a timer fires when it is due, never before
Advance ==
    /\ timers # {}
    /\ \A t \in timers : t.due > 0
    /\ timers' = { [t EXCEPT !.due = @ - 1] : t \in timers }
    /\ UNCHANGED <<result, loading, progress, error, started, inflight,
                   scoreVars, pipelineVars, windowVars>>

AppInit == AppIdle /\ ScoreIdle /\ PipelineIdle /\ WindowIdle

AppNext ==
    \/ handleChange
    \/ ClickSample
    \/ handleDrop
    \/ reset
    \/ RequestSucceeds
    \/ RequestFails
    \/ tick
    \/ Render
    \/ Advance

AppSpec == AppInit /\ [][AppNext]_vars


\* ------------------------------------------------------------------------
\* Claims about the App component
\* ------------------------------------------------------------------------
\* C16: while the delayed render of the newest request's response is
\* pending, progress stays at 100: no tick of a fakeProgress timer replaces
\* Done! by a lower stage
C16_DoneStaysDone ==
    \A t \in timers :
        (t.kind = "render" /\ t.run = started) => progress = DonePct

\* C18: error and result are never both non-null
C18_ErrorXorResult == ~(error # 0 /\ result # 0)

\* C19: a request is started (onFile or onSample is called) only while
\* loading is false, and at most one request is in flight
C19_NoInputWhileLoading ==
    /\ [](Cardinality(inflight) <= 1)
    /\ [][started' # started => ~loading]_vars

\* C20: result is set only while loading and only to the response of the
\* request started last, so a request older than the last reset or restart
\* never sets it
C20_NoStaleCompletion ==
    [][(result' # result /\ result' # 0) => (loading /\ result' = started)]_vars


\* every posted request is answered (at the latest by the axios timeout) and
\* every armed timer fires; the user owes nothing
AppLiveSpec ==
    /\ AppInit
    /\ [][AppNext]_vars
    /\ WF_vars(RequestSucceeds \/ RequestFails)
    /\ WF_vars(tick)
    /\ WF_vars(Render)
    /\ WF_vars(Advance)

\* a request is in flight or the delayed render of a response is pending
Busy == inflight # {} \/ \E t \in timers : t.kind = "render"

\* C21: every started analyze or loadSample eventually leaves loading false
\* with exactly one of result and error non-null, and loading is true for as
\* long as a request is in flight or its delayed render is pending
C21_RunSettles ==
    /\ loading ~> (~loading /\ ((result # 0) # (error # 0)))
    /\ [](Busy => loading)

====
